---- MODULE Spec2Model ----
(***************************************************************************)
(* Model of the PromptLink backend chat orchestration.                     *)
(*                                                                         *)
(* Two chat handlers exist in the repository:                              *)
(*   - src/main.py  chat()  (responses is a dict keyed by agent id), with   *)
(*     call_openrouter_api() and extract_message_content();                *)
(*   - src/src/routes/chat.py  chat()  (responses is a list), with          *)
(*     call_ai_model().                                                    *)
(* Both are modelled; the variable `handler` says which one serves the     *)
(* request.  Time is counted in milliseconds; round(x, 2) of a number of   *)
(* seconds is therefore a number of centiseconds.                          *)
(*                                                                         *)
(* src/main.py lines 113-131 are mis-indented in the repository; the       *)
(* model follows the statements of call_openrouter_api in their textual    *)
(* order (the payload built there does not influence the handler's state). *)
(***************************************************************************)
EXTENDS Integers, Sequences, FiniteSets, TLC

VARIABLES
    \* ---- one chat request (either handler) ----
    pc,                  \* "idle" | "loop" | "inflight" | "done"
    handler,             \* "main" (src/main.py) | "routes" (src/src/routes/chat.py)
    request,             \* the JSON object of the request
    message,             \* local `message` (after .strip())
    agent_ids,           \* local `agent_ids` / `valid_agents`: the list iterated
    idx,                 \* number of loop iterations completed
    responses,           \* main.py: dict agent_id -> outcome, as a sequence of <<id, outcome>>
    responsesList,       \* routes/chat.py: list of response dicts
    clock,               \* time.time(), in ms
    start_time,          \* main.py start_time
    agent_start_time,    \* start of the upstream call in flight
    total_response_time, \* routes/chat.py total_response_time (centiseconds)
    posts,               \* number of requests.post calls issued for this request
    returned,            \* the HTTP reply: [code, body], or NoReply
    OPENROUTER_API_KEY,  \* routes/chat.py: whether the environment sets the key
    calls,               \* log of the requests.post calls of the request: [pos, id, up]
    \* ---- the module-level registries, as they are at run time ----
    registryMain,        \* main.py AGENTS
    registryRoutes,      \* routes/chat.py MODEL_CONFIG
    agentConfig,         \* routes/agents.py AGENT_CONFIG
    agentsReply,         \* the last reply of an agents endpoint
    \* ---- extract_message_content applied to one body ----
    xpc,                 \* "ready" | "done"
    xbody,               \* the parsed upstream body handed to the extractor
    xresult,             \* what the extractor returned or raised
    \* ---- chat requests served concurrently, one thread per request ----
    threads,             \* per thread: the locals of its invocation of chat()
    store,               \* the `responses` objects of the invocations
    \* ---- the replies of a server that answers request after request ----
    sessions,            \* log of the replies: [at, code, sid]
    \* ---- routes/workflows.py and a client that runs a workflow ----
    workflowTemplates,  \* the module-level dict of templates
    workflowsReply,      \* the last reply of a workflows endpoint
    client               \* the client's run: [plan, executed, next_step]

chatVars == <<pc, handler, request, message, agent_ids, idx, responses, responsesList,
              clock, start_time, agent_start_time, total_response_time, posts, returned,
              OPENROUTER_API_KEY, calls>>
regVars == <<registryMain, registryRoutes, agentConfig>>
xVars == <<xpc, xbody, xresult>>
concVars == <<threads, store>>
wfVars == <<workflowTemplates, workflowsReply, client>>
vars == <<chatVars, regVars, agentsReply, xVars, concVars, sessions, wfVars>>

(***************************************************************************)
(* Bounds                                                                  *)
(***************************************************************************)
MaxAgents == 2      \* longest agent list of a request
MaxFields == 2      \* most top-level fields of a body given to the extractor
MaxOverhead == 1    \* most ms the handler's own statements add to the elapsed time
MaxSessions == 2    \* most requests that the server answers one after the other
MaxDrift == 6       \* most that a stored usage_count moves away from its initial value
MaxStep == 5        \* largest step number that a client sends

(***************************************************************************)
(* JSON values.  A dict is a sequence of <<key, value>> pairs with         *)
(* pairwise distinct keys, in insertion order (Python dicts iterate in     *)
(* insertion order).  String payloads are at most one character long, so   *)
(* that s[0] = s for every non-empty string.                               *)
(***************************************************************************)
JStr(s) == [t |-> "str", s |-> s]
JNum(n) == [t |-> "num", n |-> n]
JNull == [t |-> "null"]
JObj(f) == [t |-> "obj", f |-> f]
JList(e) == [t |-> "list", e |-> e]

\* a raised Python exception
Raise(kind) == [t |-> "raise", x |-> kind]
IsRaise(v) == v.t = "raise"

\* `key in d` for a dict d
HasKey(d, key) == \E i \in DOMAIN d.f : d.f[i][1] = key
\* d[key] for a dict d that has the key
Get(d, key) == d.f[CHOOSE i \in DOMAIN d.f : d.f[i][1] = key][2]

\* Python truthiness of a JSON value
Truthy(v) ==
    CASE v.t = "str"  -> v.s # ""
      [] v.t = "num"  -> v.n # 0
      [] v.t = "null" -> FALSE
      [] v.t = "obj"  -> Len(v.f) > 0
      [] v.t = "list" -> Len(v.e) > 0

\* v[key] for a string key
SubscriptKey(v, key) ==
    IF IsRaise(v) THEN v
    ELSE IF v.t = "obj"
         THEN IF HasKey(v, key) THEN Get(v, key) ELSE Raise("KeyError")
         ELSE Raise("TypeError")

\* v[0]
SubscriptZero(v) ==
    IF IsRaise(v) THEN v
    ELSE CASE v.t = "list" -> IF Len(v.e) > 0 THEN v.e[1] ELSE Raise("IndexError")
           [] v.t = "str"  -> IF v.s # "" THEN v ELSE Raise("IndexError")
           [] v.t = "obj"  -> Raise("KeyError")
           [] OTHER        -> Raise("TypeError")

\* the named fields tried after `choices`, in the order of the elif chain
NamedFields == <<"output", "completion", "text", "answer", "result">>

\* the elif chain of main.py lines 52-61: the first named key that is in the
\* dict decides; 0 when none is
FirstNamed(d) ==
    IF \E n \in DOMAIN NamedFields : HasKey(d, NamedFields[n])
    THEN CHOOSE n \in DOMAIN NamedFields :
            /\ HasKey(d, NamedFields[n])
            /\ \A m \in 1..(n-1) : ~HasKey(d, NamedFields[m])
    ELSE 0

\* index of the first str value of a dict, 0 if none
FirstString(d) ==
    IF \E i \in DOMAIN d.f : d.f[i][2].t = "str"
    THEN CHOOSE i \in DOMAIN d.f :
            /\ d.f[i][2].t = "str"
            /\ \A j \in 1..(i-1) : d.f[j][2].t # "str"
    ELSE 0

\* variant of FirstTopString that takes the last top-level str value
LastTopString(d) ==
    IF \E i \in DOMAIN d.f : d.f[i][2].t = "str"
    THEN CHOOSE i \in DOMAIN d.f :
            /\ d.f[i][2].t = "str"
            /\ \A j \in (i+1)..Len(d.f) : d.f[j][2].t # "str"
    ELSE 0

\* first loop (lines 62-65): index of the first top-level str value, 0 if none
FirstTopString(d) == FirstString(d)

\* second loop (lines 66-71): index of the first top-level dict value that
\* holds a str value, 0 if none
FirstNestedHolder(d) ==
    IF \E i \in DOMAIN d.f : d.f[i][2].t = "obj" /\ FirstString(d.f[i][2]) # 0
    THEN CHOOSE i \in DOMAIN d.f :
            /\ d.f[i][2].t = "obj" /\ FirstString(d.f[i][2]) # 0
            /\ \A j \in 1..(i-1) : ~(d.f[j][2].t = "obj" /\ FirstString(d.f[j][2]) # 0)
    ELSE 0

\* main.py extract_message_content(agent_name, result): the returned value,
\* or Raise(..) when the function raises (the except clause re-raises)
extract_message_content(result) ==
    CASE result.t \in {"num", "null"} -> Raise("TypeError")        \* `"choices" in result`
      [] result.t = "str" -> Raise("AttributeError")               \* result.items()
      [] result.t = "list" ->
            IF \E i \in DOMAIN result.e : result.e[i] = JStr("choices")
            THEN Raise("TypeError")                                \* result["choices"]
            ELSE Raise("AttributeError")                           \* result.items()
      [] result.t = "obj" ->
            IF HasKey(result, "choices") /\ Truthy(Get(result, "choices"))
            THEN SubscriptKey(SubscriptKey(SubscriptZero(Get(result, "choices")),
                                           "message"), "content")
            ELSE IF FirstNamed(result) # 0
            THEN Get(result, NamedFields[FirstNamed(result)])
            ELSE IF FirstTopString(result) # 0
            THEN result.f[FirstTopString(result)][2]
            ELSE IF FirstNestedHolder(result) # 0
            THEN LET inner == result.f[FirstNestedHolder(result)][2]
                 IN  inner.f[FirstString(inner)][2]
            ELSE Raise("UnknownFormat")

\* result.get("usage", {}).get("total_tokens", 0) for a dict `result`
\* (main.py line 154, routes/chat.py line 131)
TotalTokens(result) ==
    IF ~HasKey(result, "usage") THEN JNum(0)
    ELSE LET u == Get(result, "usage")
         IN  IF u.t # "obj" THEN Raise("AttributeError")
             ELSE IF HasKey(u, "total_tokens") THEN Get(u, "total_tokens") ELSE JNum(0)

(***************************************************************************)
(* Registries                                                              *)
(***************************************************************************)
\* main.py AGENTS (name, model and status of each entry)
AGENTS ==
    [deepseek     |-> [name |-> "DeepSeek R1",        model |-> "deepseek/deepseek-r1",
                      status |-> "active"],
     chatgpt      |-> [name |-> "OpenAI GPT-4 Turbo", model |-> "openai/gpt-4-turbo",
                      status |-> "active"],
     qwen         |-> [name |-> "Qwen 2.5 Coder",     model |-> "qwen/qwen-2.5-coder",
                      status |-> "active"],
     llama        |-> [name |-> "Meta Llama 3.3",     model |-> "meta-llama/llama-3-8b-instruct",
                      status |-> "active"],
     mistral      |-> [name |-> "Mistral Large",      model |-> "mistralai/mistral-large-2407",
                      status |-> "active"],
     gpt4o        |-> [name |-> "GPT-4o",             model |-> "openai/gpt-4o",
                      status |-> "active"],
     grok         |-> [name |-> "Grok Beta",          model |-> "xai/grok-1.5-llama3-8b",
                      status |-> "active"],
     claude       |-> [name |-> "Claude Opus",        model |-> "anthropic/claude-3-opus",
                      status |-> "active"],
     gemini       |-> [name |-> "Gemini 2.0 Flash",   model |-> "google/gemini-1.5-flash",
                      status |-> "active"],
     deepseekfree |-> [name |-> "DeepSeek Free",      model |-> "deepseek/deepseek-chat",
                      status |-> "active"],
     perplexity   |-> [name |-> "Perplexity Pro",     model |-> "perplexity/perplexity-llm",
                      status |-> "active"]]

\* routes/chat.py MODEL_CONFIG (model and the key each entry authenticates with)
MODEL_CONFIG ==
    [claude  |-> [model |-> "anthropic/claude-3.5-sonnet",       api_key |-> "OPENROUTER_API_KEY"],
     gpt     |-> [model |-> "gpt-4-turbo-preview",               api_key |-> "OPENAI_API_KEY"],
     llama   |-> [model |-> "meta-llama/llama-3.3-70b-instruct", api_key |-> "OPENROUTER_API_KEY"],
     mistral |-> [model |-> "mistralai/mistral-large-2407",      api_key |-> "OPENROUTER_API_KEY"],
     gemini  |-> [model |-> "google/gemini-2.0-flash-exp",       api_key |-> "OPENROUTER_API_KEY"]]

\* routes/agents.py AGENT_CONFIG (status and health of each entry; an entry
\* has no last_updated field until a handler stores one: <<>> stands for the
\* missing field, <<t>> for the field with the time t)
AGENT_CONFIG ==
    [claude  |-> [status |-> "active", health |-> 98, last_updated |-> <<>>],
     gpt     |-> [status |-> "active", health |-> 95, last_updated |-> <<>>],
     llama   |-> [status |-> "active", health |-> 92, last_updated |-> <<>>],
     mistral |-> [status |-> "active", health |-> 94, last_updated |-> <<>>],
     gemini  |-> [status |-> "active", health |-> 96, last_updated |-> <<>>]]

(***************************************************************************)
(* Inputs                                                                  *)
(***************************************************************************)
\* agent ids a request may name: two ids both registries know, and "x",
\* which neither knows
RequestIds == {"claude", "llama", "x"}

\* messages, as sequences of characters: empty, blank, and texts with and
\* without surrounding blanks
Messages == {<<>>, <<" ">>, <<" ", " ">>, <<"h">>, <<" ", "h", "i", " ">>}

SeqsUpTo(S, n) == UNION {[1..k -> S] : k \in 0..n}

\* the JSON object of a request: `message` and `agents` are each present or
\* missing (a missing field carries no value); `extra` says whether the
\* object has any other field, which matters for an object with neither
Requests ==
    {req \in [hasMessage : BOOLEAN, message : Messages,
              hasAgents : BOOLEAN, agents : SeqsUpTo(RequestIds, MaxAgents),
              extra : BOOLEAN] :
        /\ (~req.hasMessage => req.message = <<>>)
        /\ (~req.hasAgents => req.agents = <<>>)
        /\ (req.extra => ~req.hasMessage /\ ~req.hasAgents)}

\* `not data` for the parsed object: true of the empty object {}
IsEmptyObject(req) == ~req.hasMessage /\ ~req.hasAgents /\ ~req.extra

\* str.strip(): drop leading and trailing blanks
RECURSIVE LStrip(_)
LStrip(s) == IF s # <<>> /\ Head(s) = " " THEN LStrip(Tail(s)) ELSE s
RECURSIVE RStrip(_)
RStrip(s) == IF s # <<>> /\ s[Len(s)] = " " THEN RStrip(SubSeq(s, 1, Len(s) - 1)) ELSE s
\* variant of Strip that leaves the blanks in place
StripNone(s) == s

Strip(s) == RStrip(LStrip(s))

\* durations of an upstream call, in ms
Durations == {0, 12}

\* bodies an upstream may answer with
GoodChoices == JList(<<JObj(<< <<"message", JObj(<< <<"content", JStr("e")>> >>)>> >>)>>)
SampleBodies ==
    { JObj(<< <<"choices", GoodChoices>>,
              <<"usage", JObj(<< <<"total_tokens", JNum(7)>> >>)>> >>),
      JObj(<< <<"choices", GoodChoices>>,
              <<"usage", JObj(<< <<"total_tokens", JStr("a")>> >>)>> >>),
      JObj(<< <<"output", JStr("a")>> >>),
      JObj(<< <<"foo", JNum(42)>> >>) }

\* what one requests.post can end with: a response with a status code whose
\* body parses as JSON or not, or a transport exception (timeout, DNS, ...)
Upstream ==
    {[kind |-> "response", status |-> 200, json |-> TRUE, body |-> b] : b \in SampleBodies}
    \cup {[kind |-> "response", status |-> 200, json |-> FALSE, body |-> JNull]}
    \cup {[kind |-> "response", status |-> st, json |-> TRUE,
           body |-> JObj(<< <<"output", JStr("a")>> >>)] : st \in {201, 500}}
    \cup {[kind |-> "exception", status |-> 0, json |-> FALSE, body |-> JNull]}

(***************************************************************************)
(* round(x, 2)                                                             *)
(***************************************************************************)
\* the integers nearest to num/den (den > 0); an exact tie may go either way,
\* because the float that stands for it lies on either side
RoundDivSet(num, den) ==
    IF (2 * num) % (2 * den) = den
    THEN {num \div den, (num \div den) + 1}
    ELSE {(2 * num + den) \div (2 * den)}

\* round(ms / 1000, 2), in centiseconds
Round2Set(ms) == RoundDivSet(ms, 10)

(***************************************************************************)
(* src/main.py                                                             *)
(***************************************************************************)
NoReply == [code |-> 0]

\* a requests.post that has not returned yet
Pending == [kind |-> "pending"]

\* the log once the call in flight (the last one started) has ended with `up`
Completed(log, up) == [i \in DOMAIN log |-> IF i = Len(log) THEN [log[i] EXCEPT !.up = up] ELSE log[i]]

\* responses[key] = value on a dict kept as a sequence of pairs: an existing
\* key keeps its place and gets the new value, a new key is appended
DictSet(d, key, value) ==
    IF \E i \in DOMAIN d : d[i][1] = key
    THEN [i \in DOMAIN d |-> IF d[i][1] = key THEN <<key, value>> ELSE d[i]]
    ELSE Append(d, <<key, value>>)

DictKeys(d) == {d[i][1] : i \in DOMAIN d}
DictGet(d, key) == d[CHOOSE i \in DOMAIN d : d[i][1] = key][2]

\* variant of call_openrouter_api without the except clause of line 159: an
\* exception of the call or of the extraction propagates to chat()
call_openrouter_api_NoCatch(up, model, agent_name) ==
    IF up.kind = "exception" THEN Raise("Transport")
    ELSE IF up.status = 200
    THEN IF ~up.json THEN Raise("JSONDecodeError")
         ELSE IF IsRaise(extract_message_content(up.body))
         THEN extract_message_content(up.body)
         ELSE IF IsRaise(TotalTokens(up.body)) THEN TotalTokens(up.body)
         ELSE [success |-> TRUE, message |-> extract_message_content(up.body),
               tokens |-> TotalTokens(up.body)]
    ELSE [success |-> TRUE, tokens |-> JNum(0),
          message |-> [t |-> "http_error_text", agent |-> agent_name,
                       model |-> model, status |-> up.status]]

\* variant of call_openrouter_api whose text for a non-200 status leaves the
\* status code out
call_openrouter_api_NoStatus(up, model, agent_name) ==
    LET exc(kind) == [success |-> TRUE, tokens |-> JNum(0),
                      message |-> [t |-> "exception_text", agent |-> agent_name,
                                   model |-> model, exc |-> kind]]
    IN  IF up.kind = "exception" THEN exc("Transport")
        ELSE IF up.status = 200
        THEN IF ~up.json THEN exc("JSONDecodeError")
             ELSE IF IsRaise(extract_message_content(up.body))
             THEN exc(extract_message_content(up.body).x)
             ELSE IF IsRaise(TotalTokens(up.body)) THEN exc(TotalTokens(up.body).x)
             ELSE [success |-> TRUE, message |-> extract_message_content(up.body),
                   tokens |-> TotalTokens(up.body)]
        ELSE [success |-> TRUE, tokens |-> JNum(0),
              message |-> [t |-> "http_error_text", agent |-> agent_name,
                           model |-> model, status |-> 0]]

\* main.py call_openrouter_api(message, model, agent_name), from the point
\* where requests.post has ended with `up`: the dict it returns.  Every
\* exception raised inside is caught by the except clause of line 159.
call_openrouter_api(up, model, agent_name) ==
    LET exc(kind) == [success |-> TRUE, tokens |-> JNum(0),
                      message |-> [t |-> "exception_text", agent |-> agent_name,
                                   model |-> model, exc |-> kind]]
    IN  IF up.kind = "exception" THEN exc("Transport")
        ELSE IF up.status = 200
        THEN IF ~up.json THEN exc("JSONDecodeError")
             ELSE LET message_content == extract_message_content(up.body)
                  IN  IF IsRaise(message_content) THEN exc(message_content.x)
                      ELSE IF IsRaise(TotalTokens(up.body)) THEN exc(TotalTokens(up.body).x)
                      ELSE [success |-> TRUE, message |-> message_content,
                            tokens |-> TotalTokens(up.body)]
        ELSE [success |-> TRUE, tokens |-> JNum(0),
              message |-> [t |-> "http_error_text", agent |-> agent_name,
                           model |-> model, status |-> up.status]]

\* variant of AgentsAfterOutcome in which the handler marks the entry it used
AgentsAfterOutcomeMarked(stored, agent_id) ==
    [stored EXCEPT ![agent_id].status = "used"]

\* chat(), lines 190-200: agent_config is the stored entry AGENTS[agent_id]
\* itself; the handler reads its name and model and assigns nothing to it, so
\* AGENTS is afterwards what it was
AgentsAfterOutcome(stored, agent_id) == stored

\* chat(), lines 168-183: parse and validate the request, then enter the loop
MainReceive(req) ==
    /\ pc = "idle"
    /\ handler' = "main"
    /\ request' = req
    /\ LET msg == Strip(IF req.hasMessage THEN req.message ELSE <<>>)
           ids == IF req.hasAgents THEN req.agents ELSE <<>>
           reject(err) ==
               /\ returned' = [code |-> 400, body |-> [success |-> FALSE, error |-> err]]
               /\ pc' = "done"
               /\ UNCHANGED <<message, agent_ids, start_time>>
       IN  IF IsEmptyObject(req) THEN reject("No JSON data provided")
           ELSE IF msg = <<>> THEN reject("Message is required")
           ELSE IF ids = <<>> THEN reject("At least one agent must be specified")
           ELSE /\ message' = msg
                /\ agent_ids' = ids
                /\ start_time' = clock
                /\ pc' = "loop"
                /\ UNCHANGED returned
    /\ responses' = <<>>
    /\ idx' = 0
    /\ UNCHANGED <<responsesList, clock, agent_start_time, total_response_time, posts,
                   OPENROUTER_API_KEY>>
    /\ UNCHANGED <<regVars, calls>>

\* variant of PostsAfterCall for an adapter that posts a second time
PostsAfterCallWithRetry(n) == n + 2

\* the adapters hold one requests.post, outside any loop (main.py line 135,
\* routes/chat.py line 112): one call of the adapter issues one POST
PostsAfterCall(n) == n + 1

\* variant of AfterPost for a call that is started without waiting for it
AfterPostNoWait == "loop"

\* requests.post is a blocking call (main.py line 135, routes/chat.py line
\* 112): the handler stays in it until the response or the exception arrives
AfterPost == "inflight"

\* chat(), lines 184-193: the head of one loop iteration.  An unknown id gets
\* its error outcome and the loop continues; a known id starts its upstream call
MainDispatch ==
    /\ pc = "loop" /\ handler = "main"
    /\ idx < Len(agent_ids)
    /\ LET agent_id == agent_ids[idx + 1]
       IN  IF agent_id \notin DOMAIN registryMain
           THEN /\ responses' = DictSet(responses, agent_id,
                        [status |-> "error", error |-> <<"Unknown agent: ", agent_id>>,
                         timestamp |-> clock])
                /\ idx' = idx + 1
                /\ UNCHANGED <<pc, agent_start_time, posts, calls>>
           ELSE /\ agent_start_time' = clock
                /\ posts' = PostsAfterCall(posts)
                /\ calls' = Append(calls, [pos |-> idx + 1, id |-> agent_id, up |-> Pending])
                /\ pc' = AfterPost
                /\ UNCHANGED <<responses, idx>>
    /\ UNCHANGED <<handler, request, message, agent_ids, responsesList, clock, start_time,
                   total_response_time, returned, OPENROUTER_API_KEY>>
    /\ UNCHANGED regVars

\* chat(), lines 218-220: the reply when the handler's try block raised
ServerError(err) == [code |-> 500, body |-> [success |-> FALSE, error |-> <<"Server error: ", err>>]]

\* chat(), lines 193-203: the upstream call ends after d ms with `up`, and the
\* outcome of the agent is stored; were the call to raise, the except clause
\* of line 218 would answer 500
MainUpstreamReturn(up, d) ==
    /\ pc = "inflight" /\ handler = "main"
    /\ clock' = clock + d
    /\ calls' = Completed(calls, up)
    /\ LET agent_id == agent_ids[idx + 1]
           agent_config == registryMain[agent_id]
           result == call_openrouter_api(up, agent_config.model, agent_config.name)
       IN  IF "t" \in DOMAIN result
           THEN /\ returned' = ServerError(result.x)
                /\ pc' = "done"
                /\ UNCHANGED <<responses, idx, registryMain>>
           ELSE /\ \E rt \in Round2Set(clock' - agent_start_time) :
                      responses' = DictSet(responses, agent_id,
                            [status |-> "success", response |-> result.message,
                             agent |-> agent_config.name, model |-> agent_config.model,
                             timestamp |-> clock', response_time |-> rt,
                             tokens_used |-> result.tokens])
                /\ idx' = idx + 1
                /\ pc' = "loop"
                /\ registryMain' = AgentsAfterOutcome(registryMain, agent_id)
                /\ UNCHANGED returned
    /\ UNCHANGED <<handler, request, message, agent_ids, responsesList, start_time,
                   agent_start_time, total_response_time, posts, OPENROUTER_API_KEY>>
    /\ UNCHANGED <<registryRoutes, agentConfig>>

\* variant of LoopDone for a return placed inside the loop body
LoopDoneAfterFirst(i, ids) == i >= 1

\* the envelope is built after the for statement (main.py line 205,
\* routes/chat.py line 212), that is once the loop has gone through the list
LoopDone(i, ids) == i = Len(ids)

\* variant of SessionId that rounds the clock to the nearest second
SessionIdRounded(now) == (now + 500) \div 1000

\* f"session_{int(time.time())}" (main.py line 216, routes/chat.py line 226):
\* the clock reading, in ms, cut to whole seconds
SessionId(now) == now \div 1000

\* variant of TotalTime that measures from the start of the last upstream call
TotalTimeSinceLastCall(now) == now - agent_start_time

\* chat(), line 205: total_time = time.time() - start_time, in ms
TotalTime(now) == now - start_time

\* chat(), lines 205-217: the envelope.  o is the time, in ms, that the
\* handler's own statements took since start_time besides the upstream calls
MainFinish(o) ==
    /\ pc = "loop" /\ handler = "main"
    /\ LoopDone(idx, agent_ids)
    /\ clock' = clock + o
    /\ LET total_time == TotalTime(clock')
       IN  \E tt \in Round2Set(total_time) :
           \E avg \in (IF Len(agent_ids) > 0
                       THEN RoundDivSet(total_time, 10 * Len(agent_ids)) ELSE {0}) :
              returned' = [code |-> 200,
                           body |-> [success |-> TRUE,
                                     responses |-> responses,
                                     metadata |-> [total_agents |-> Len(agent_ids),
                                                   successful_responses |-> Len(responses),
                                                   total_time |-> tt,
                                                   average_response_time |-> avg,
                                                   session_id |-> SessionId(clock')]]]
    /\ pc' = "done"
    /\ UNCHANGED <<handler, request, message, agent_ids, idx, responses, responsesList,
                   start_time, agent_start_time, total_response_time, posts, OPENROUTER_API_KEY>>
    /\ UNCHANGED <<regVars, calls>>

(***************************************************************************)
(* src/src/routes/chat.py                                                  *)
(***************************************************************************)
\* call_ai_model(agent_id, message, mode), lines 112-152, from the point
\* where requests.post has ended with `up` after d ms: the dict it returns,
\* given the rounded response time rt
call_ai_model(agent_id, up, rt) ==
    LET failed(err) == [agent |-> agent_id, message |-> "Connection Error - Demo response",
                        error |-> err, demo_mode |-> TRUE]
    IN  IF up.kind = "exception" THEN failed("Transport")
        ELSE IF up.status = 200
        THEN IF ~up.json THEN failed("JSONDecodeError")
             ELSE LET data == up.body
                      ai_message == SubscriptKey(SubscriptKey(SubscriptZero(
                                        SubscriptKey(data, "choices")), "message"), "content")
                  IN  IF IsRaise(ai_message) THEN failed(ai_message.x)
                      ELSE IF IsRaise(TotalTokens(data)) THEN failed(TotalTokens(data).x)
                      ELSE [agent |-> agent_id, message |-> ai_message,
                            response_time |-> rt, tokens_used |-> TotalTokens(data),
                            demo_mode |-> FALSE]
        ELSE [agent |-> agent_id, message |-> "API Error - Demo response",
              error |-> <<"API returned status ", up.status>>, demo_mode |-> TRUE]

\* call_ai_model, lines 82-89: the demo response given when no API key is set
DemoResponse(agent_id) ==
    [agent |-> agent_id, message |-> "Demo response", demo_mode |-> TRUE]

\* chat(), lines 203-210: the response appended when the loop body raised
ErrorResponse(agent_id, err) ==
    [agent |-> agent_id, message |-> "Error: Could not get response", error |-> err,
     demo_mode |-> TRUE]

\* chat(), lines 199-210: what one loop iteration does with the dict that
\* call_ai_model returned: the new responses, total_response_time
AfterCall(agent_id, response) ==
    LET appended == Append(responsesList, response)
        tokens == IF "tokens_used" \in DOMAIN response THEN response.tokens_used ELSE JNum(0)
    IN  IF "t" \in DOMAIN response
        THEN \* call_ai_model raised: nothing was appended before the except clause
             [responses |-> Append(responsesList, ErrorResponse(agent_id, response.x)),
              total_response_time |-> total_response_time]
        ELSE IF tokens.t # "num"
        THEN \* total_tokens += ... raises TypeError after the append
             [responses |-> Append(appended, ErrorResponse(agent_id, "TypeError")),
              total_response_time |-> total_response_time]
        ELSE [responses |-> appended,
              total_response_time |-> total_response_time +
                    (IF "response_time" \in DOMAIN response THEN response.response_time ELSE 0)]

\* variant of ValidAgents that also drops the agents whose status in
\* AGENT_CONFIG is not active
RECURSIVE ValidAgentsActive(_)
ValidAgentsActive(agents) ==
    IF agents = <<>> THEN <<>>
    ELSE IF /\ Head(agents) \in DOMAIN registryRoutes
            /\ Head(agents) \in DOMAIN agentConfig
            /\ agentConfig[Head(agents)].status = "active"
         THEN <<Head(agents)>> \o ValidAgentsActive(Tail(agents))
         ELSE ValidAgentsActive(Tail(agents))

\* [agent for agent in agents if agent in MODEL_CONFIG]
RECURSIVE ValidAgents(_)
ValidAgents(agents) ==
    IF agents = <<>> THEN <<>>
    ELSE IF Head(agents) \in DOMAIN registryRoutes
         THEN <<Head(agents)>> \o ValidAgents(Tail(agents))
         ELSE ValidAgents(Tail(agents))

\* chat(), lines 158-194: parse and validate the request, then enter the loop
RoutesReceive(req) ==
    /\ pc = "idle"
    /\ handler' = "routes"
    /\ request' = req
    /\ LET msg == Strip(IF req.hasMessage THEN req.message ELSE <<>>)
           given == IF req.hasAgents THEN req.agents ELSE <<"claude">>
           agents == IF given = <<>> THEN <<"claude">> ELSE given
           valid_agents == ValidAgents(agents)
           reject(err) ==
               /\ returned' = [code |-> 400, body |-> [success |-> FALSE, error |-> err]]
               /\ pc' = "done"
               /\ UNCHANGED <<message, agent_ids>>
       IN  IF IsEmptyObject(req) THEN reject("No data provided")
           ELSE IF msg = <<>> THEN reject("Message is required")
           ELSE IF valid_agents = <<>> THEN reject("No valid agents specified")
           ELSE /\ message' = msg
                /\ agent_ids' = valid_agents
                /\ pc' = "loop"
                /\ UNCHANGED returned
    /\ responsesList' = <<>>
    /\ total_response_time' = 0
    /\ idx' = 0
    /\ UNCHANGED <<responses, clock, start_time, agent_start_time, posts, OPENROUTER_API_KEY>>
    /\ UNCHANGED <<regVars, calls>>

\* chat(), lines 196-201 with call_ai_model lines 76-119: the head of one loop
\* iteration.  Without an API key the demo response is appended at once;
\* with one the upstream call starts
RoutesDispatch ==
    /\ pc = "loop" /\ handler = "routes"
    /\ idx < Len(agent_ids)
    /\ LET agent_id == agent_ids[idx + 1]
           early == IF agent_id \notin DOMAIN registryRoutes
                    THEN Raise("ValueError") ELSE DemoResponse(agent_id)
       IN  IF agent_id \notin DOMAIN registryRoutes \/ ~OPENROUTER_API_KEY
           THEN /\ responsesList' = AfterCall(agent_id, early).responses
                /\ total_response_time' = AfterCall(agent_id, early).total_response_time
                /\ idx' = idx + 1
                /\ UNCHANGED <<pc, agent_start_time, posts, calls>>
           ELSE /\ agent_start_time' = clock
                /\ posts' = PostsAfterCall(posts)
                /\ calls' = Append(calls, [pos |-> idx + 1, id |-> agent_id, up |-> Pending])
                /\ pc' = AfterPost
                /\ UNCHANGED <<responsesList, total_response_time, idx>>
    /\ UNCHANGED <<handler, request, message, agent_ids, responses, clock, start_time,
                   returned, OPENROUTER_API_KEY>>
    /\ UNCHANGED regVars

\* call_ai_model lines 120-152 and chat() lines 199-210: the upstream call
\* ends after d ms with `up`, and the response of the agent is appended
RoutesUpstreamReturn(up, d) ==
    /\ pc = "inflight" /\ handler = "routes"
    /\ clock' = clock + d
    /\ calls' = Completed(calls, up)
    /\ LET agent_id == agent_ids[idx + 1]
       IN  \E rt \in Round2Set(clock' - agent_start_time) :
              LET after == AfterCall(agent_id, call_ai_model(agent_id, up, rt))
              IN  /\ responsesList' = after.responses
                  /\ total_response_time' = after.total_response_time
    /\ idx' = idx + 1
    /\ pc' = "loop"
    /\ UNCHANGED <<handler, request, message, agent_ids, responses, start_time,
                   agent_start_time, posts, returned, OPENROUTER_API_KEY>>
    /\ UNCHANGED regVars

\* variant of NoErrorCount that counts every response: len(responses)
CountAll(rs) == Len(rs)

\* len([r for r in responses if not r.get('error')])
NoErrorCount(rs) == Cardinality({i \in DOMAIN rs : "error" \notin DOMAIN rs[i]})

\* chat(), lines 212-227: the envelope
RoutesFinish ==
    /\ pc = "loop" /\ handler = "routes"
    /\ LoopDone(idx, agent_ids)
    /\ \E avg \in (IF Len(responsesList) > 0
                   THEN RoundDivSet(total_response_time, Len(responsesList)) ELSE {0}) :
          returned' = [code |-> 200,
                       body |-> [success |-> TRUE,
                                 responses |-> responsesList,
                                 metadata |-> [total_agents |-> Len(agent_ids),
                                               successful_responses |->
                                                   NoErrorCount(responsesList),
                                               average_response_time |-> avg],
                                 session_id |-> SessionId(clock)]]
    /\ pc' = "done"
    /\ UNCHANGED <<handler, request, message, agent_ids, idx, responses, responsesList, clock,
                   start_time, agent_start_time, total_response_time, posts, OPENROUTER_API_KEY>>
    /\ UNCHANGED <<regVars, calls>>

(***************************************************************************)
(* Threads: Flask serves every request in a thread of its own              *)
(***************************************************************************)
\* the threads that serve chat requests at the same time
Threads == {1, 2}

\* a thread that serves no request
ThreadIdle ==
    [pc |-> "idle", handler |-> "none", message |-> <<>>, agent_ids |-> <<>>, idx |-> 0,
     overlap |-> FALSE, returned |-> NoReply]

(***************************************************************************)
(* src/src/routes/workflows.py: the templates.  A success_rate is kept in  *)
(* tenths (94.2 is 942); a time stamp is a whole number of seconds; an     *)
(* optional value is <<>> (None, absent) or <<v>>.                         *)
(***************************************************************************)
Task(step, agents) == [step |-> step, agents |-> agents]

WORKFLOW_TEMPLATES ==
    "strategic-planning" :>
        [id |-> "strategic-planning", category |-> "business",
         tasks |-> <<Task(1, <<"claude", "gpt">>), Task(2, <<"gpt", "mistral">>),
                     Task(3, <<"claude", "mistral">>), Task(4, <<"gpt", "claude">>)>>,
         status |-> "active", usage_count |-> 47, success_rate |-> 942,
         last_updated |-> <<>>] @@
    "orchestration-framework" :>
        [id |-> "orchestration-framework", category |-> "ai-coordination",
         tasks |-> <<Task(1, <<"claude">>), Task(2, <<"gpt", "claude">>),
                     Task(3, <<"claude", "gpt", "llama", "mistral", "gemini">>),
                     Task(4, <<"claude", "gpt">>)>>,
         status |-> "active", usage_count |-> 23, success_rate |-> 978,
         last_updated |-> <<>>] @@
    "multi-agent-debate" :>
        [id |-> "multi-agent-debate", category |-> "analysis",
         tasks |-> <<Task(1, <<"claude", "gpt", "llama">>), Task(2, <<"claude", "gpt", "llama">>),
                     Task(3, <<"claude", "gpt", "llama">>), Task(4, <<"claude">>)>>,
         status |-> "active", usage_count |-> 31, success_rate |-> 915,
         last_updated |-> <<>>]

\* the templates in the order of the dict
TemplateOrder == <<"strategic-planning", "orchestration-framework", "multi-agent-debate">>

\* a client that has not started a workflow
ClientIdle == [plan |-> <<>>, executed |-> <<>>, next_step |-> <<>>]

WfInit ==
    /\ workflowTemplates = WORKFLOW_TEMPLATES
    /\ workflowsReply = NoReply
    /\ client = ClientIdle

(***************************************************************************)
(* The chat specification: one request, served by either handler           *)
(***************************************************************************)
Init ==
    /\ pc = "idle"
    /\ handler = "none"
    /\ request = [hasMessage |-> FALSE, message |-> <<>>, hasAgents |-> FALSE,
                  agents |-> <<>>, extra |-> FALSE]
    /\ message = <<>>
    /\ agent_ids = <<>>
    /\ idx = 0
    /\ responses = <<>>
    /\ responsesList = <<>>
    /\ clock = 0
    /\ start_time = 0
    /\ agent_start_time = 0
    /\ total_response_time = 0
    /\ posts = 0
    /\ returned = NoReply
    /\ calls = <<>>
    /\ registryMain = AGENTS
    /\ registryRoutes = MODEL_CONFIG
    /\ agentConfig = AGENT_CONFIG
    /\ agentsReply = NoReply
    /\ OPENROUTER_API_KEY \in BOOLEAN
    /\ xpc = "off"
    /\ xbody = JNull
    /\ xresult = JNull
    /\ threads = [r \in Threads |-> ThreadIdle]
    /\ store = [r \in Threads |-> <<>>]
    /\ sessions = <<>>
    /\ WfInit

Next ==
    \/ pc = "idle" /\ \E req \in Requests : MainReceive(req) /\ UNCHANGED <<xVars, agentsReply, concVars, sessions, wfVars>>
    \/ MainDispatch /\ UNCHANGED <<xVars, agentsReply, concVars, sessions, wfVars>>
    \/ pc = "inflight" /\ \E up \in Upstream, d \in Durations :
            MainUpstreamReturn(up, d) /\ UNCHANGED <<xVars, agentsReply, concVars, sessions, wfVars>>
    \/ pc = "loop" /\ \E o \in 0..MaxOverhead : MainFinish(o) /\ UNCHANGED <<xVars, agentsReply, concVars, sessions, wfVars>>
    \/ pc = "idle" /\ \E req \in Requests : RoutesReceive(req) /\ UNCHANGED <<xVars, agentsReply, concVars, sessions, wfVars>>
    \/ RoutesDispatch /\ UNCHANGED <<xVars, agentsReply, concVars, sessions, wfVars>>
    \/ pc = "inflight" /\ \E up \in Upstream, d \in Durations :
            RoutesUpstreamReturn(up, d) /\ UNCHANGED <<xVars, agentsReply, concVars, sessions, wfVars>>
    \/ RoutesFinish /\ UNCHANGED <<xVars, agentsReply, concVars, sessions, wfVars>>

Spec == Init /\ [][Next]_vars

\* the steps of a request that has been received: the interpreter keeps
\* running the handler, and every requests.post ends, by a response, by an
\* error or by its timeout (timeout=60 in main.py line 139, timeout=30 in
\* routes/chat.py line 116)
ChatProgress ==
    \/ MainDispatch /\ UNCHANGED <<xVars, agentsReply, concVars, sessions, wfVars>>
    \/ pc = "inflight" /\ \E up \in Upstream, d \in Durations :
            MainUpstreamReturn(up, d) /\ UNCHANGED <<xVars, agentsReply, concVars, sessions, wfVars>>
    \/ pc = "loop" /\ \E o \in 0..MaxOverhead :
            MainFinish(o) /\ UNCHANGED <<xVars, agentsReply, concVars, sessions, wfVars>>
    \/ RoutesDispatch /\ UNCHANGED <<xVars, agentsReply, concVars, sessions, wfVars>>
    \/ pc = "inflight" /\ \E up \in Upstream, d \in Durations :
            RoutesUpstreamReturn(up, d) /\ UNCHANGED <<xVars, agentsReply, concVars, sessions, wfVars>>
    \/ RoutesFinish /\ UNCHANGED <<xVars, agentsReply, concVars, sessions, wfVars>>

SpecLive == Init /\ [][Next]_vars /\ WF_vars(ChatProgress)

(***************************************************************************)
(* The extractor specification: extract_message_content applied to a body  *)
(***************************************************************************)
\* keys of a body: the six named fields and two other keys
Keys == {"choices", "output", "completion", "text", "answer", "result", "foo", "bar"}

\* values of a top-level field
Values ==
    { JStr("a"), JStr("b"), JStr(""), JNum(42), JNull,
      JObj(<< <<"k", JNum(7)>>, <<"m", JStr("c")>> >>),           \* a str one level inside
      JObj(<< <<"k", JObj(<< <<"kk", JStr("d")>> >>)>> >>),       \* a str two levels inside
      JList(<<>>),
      GoodChoices,                                                \* [{"message":{"content":"e"}}]
      JList(<<JObj(<<>>)>>),                                      \* [{}]
      JList(<<JObj(<< <<"message", JObj(<< <<"content", JNum(5)>> >>)>> >>)>>) }

\* dicts of at most MaxFields fields with pairwise distinct keys
Bodies ==
    {JObj(f) : f \in {g \in SeqsUpTo(Keys \X Values, MaxFields) :
                        \A i, j \in DOMAIN g : i # j => g[i][1] # g[j][1]}}

\* parsed bodies that are not dicts
OtherBodies == {JList(<<>>), JList(<<JStr("choices")>>), JStr("a"), JNum(42), JNull}

InitExtract ==
    /\ pc = "off"
    /\ handler = "none"
    /\ request = [hasMessage |-> FALSE, message |-> <<>>, hasAgents |-> FALSE,
                  agents |-> <<>>, extra |-> FALSE]
    /\ message = <<>>
    /\ agent_ids = <<>>
    /\ idx = 0
    /\ responses = <<>>
    /\ responsesList = <<>>
    /\ clock = 0
    /\ start_time = 0
    /\ agent_start_time = 0
    /\ total_response_time = 0
    /\ posts = 0
    /\ returned = NoReply
    /\ calls = <<>>
    /\ registryMain = AGENTS
    /\ registryRoutes = MODEL_CONFIG
    /\ agentConfig = AGENT_CONFIG
    /\ agentsReply = NoReply
    /\ OPENROUTER_API_KEY = TRUE
    /\ xpc = "ready"
    /\ xbody \in Bodies \cup OtherBodies
    /\ xresult = JNull
    /\ threads = [r \in Threads |-> ThreadIdle]
    /\ store = [r \in Threads |-> <<>>]
    /\ sessions = <<>>
    /\ WfInit

\* message_content = extract_message_content(agent_name, result)
ExtractStep ==
    /\ xpc = "ready"
    /\ xresult' = extract_message_content(xbody)
    /\ xpc' = "done"
    /\ UNCHANGED xbody

NextExtract == ExtractStep /\ UNCHANGED <<chatVars, regVars, agentsReply, concVars, sessions, wfVars>>

SpecExtract == InitExtract /\ [][NextExtract]_vars

(***************************************************************************)
(* The agents endpoints: src/src/routes/agents.py and main.py get_agents   *)
(***************************************************************************)
\* the clock readings, in whole seconds, at which an endpoint may run
Nows == {0, 5}
\* the ids an endpoint may be asked about
AgentIds == RequestIds
\* AGENT_CONFIG.values() and AGENTS.items() iterate in insertion order
AgentOrder == <<"claude", "gpt", "llama", "mistral", "gemini">>
MainOrder == <<"deepseek", "chatgpt", "qwen", "llama", "mistral", "gpt4o", "grok",
               "claude", "gemini", "deepseekfree", "perplexity">>

\* max(85, min(100, h))
Clamp(h) ==
    LET m == IF h < 100 THEN h ELSE 100
    IN  IF m > 85 THEN m ELSE 85

\* agents.py get_agents, lines 66-73: `agents` holds the dicts of AGENT_CONFIG
\* themselves, so the loop's assignments are made to the stored entries
StoredAfterList(stored, now) ==
    [id \in DOMAIN stored |->
        [stored[id] EXCEPT !.health = Clamp(@ + ((now % 10) - 5)),
                           !.last_updated = <<now>>]]

\* agents.py get_agents, lines 62-85
RoutesGetAgents(now) ==
    /\ agentConfig' = StoredAfterList(agentConfig, now)
    /\ LET agents == [i \in DOMAIN AgentOrder |->
                        StoredAfterList(agentConfig, now)[AgentOrder[i]]]
       IN  agentsReply' =
             [code |-> 200,
              body |-> [success |-> TRUE, agents |-> agents, total |-> Len(agents),
                        active |-> Cardinality({i \in DOMAIN agents :
                                                  agents[i].status = "active"})]]
    /\ UNCHANGED <<registryMain, registryRoutes>>

\* hash(agent_id) of main.py line 92: Python salts str hashes per process, so
\* the value is a function of the id and of a salt
StrHash(id, salt) ==
    salt * (CHOOSE i \in DOMAIN MainOrder : MainOrder[i] = id)

\* main.py get_agents, lines 86-103: every entry is copied ({**agent_config})
\* and the copy gets health and last_updated
MainGetAgents(now, salt) ==
    /\ LET agents_list ==
             [i \in DOMAIN MainOrder |->
                [name |-> registryMain[MainOrder[i]].name,
                 model |-> registryMain[MainOrder[i]].model,
                 status |-> registryMain[MainOrder[i]].status,
                 health |-> 95 + (StrHash(MainOrder[i], salt) % 5),
                 last_updated |-> <<now>>]]
       IN  agentsReply' =
             [code |-> 200,
              body |-> [success |-> TRUE, total |-> Len(agents_list),
                        active |-> Cardinality({i \in DOMAIN agents_list :
                                                  agents_list[i].status = "active"}),
                        agents |-> agents_list]]
    /\ UNCHANGED regVars

\* the 404 of the endpoints that take an agent id
AgentNotFound == [code |-> 404, body |-> [success |-> FALSE, error |-> "Agent not found"]]

\* agents.py get_agent_health, lines 110-141; response_time in hundredths
get_agent_health(agent_id, now) ==
    /\ agentsReply' =
         IF agent_id \notin DOMAIN agentConfig THEN AgentNotFound
         ELSE [code |-> 200,
               body |-> [success |-> TRUE,
                         health |-> [agent_id |-> agent_id,
                                     health |-> agentConfig[agent_id].health,
                                     status |-> agentConfig[agent_id].status,
                                     response_time |-> 50 + 100 * (now % 2),
                                     last_request |-> <<now>>,
                                     requests_today |-> (now % 1000) + 100]]]
    /\ UNCHANGED regVars

\* variant of SetAgentStatus that flips the stored status instead of setting it
SetAgentStatusToggle(agent_id, status, now) ==
    /\ IF agent_id \notin DOMAIN agentConfig
       THEN agentsReply' = AgentNotFound /\ UNCHANGED agentConfig
       ELSE /\ agentConfig' =
                 [agentConfig EXCEPT ![agent_id].status =
                                        IF @ = "active" THEN "inactive" ELSE "active",
                                     ![agent_id].last_updated = <<now>>]
            /\ agentsReply' = [code |-> 200,
                               body |-> [success |-> TRUE,
                                         agent |-> agentConfig'[agent_id]]]
    /\ UNCHANGED <<registryMain, registryRoutes>>

\* agents.py activate_agent (lines 179-201) and deactivate_agent (203-225):
\* status is "active" or "inactive"
SetAgentStatus(agent_id, status, now) ==
    /\ IF agent_id \notin DOMAIN agentConfig
       THEN agentsReply' = AgentNotFound /\ UNCHANGED agentConfig
       ELSE /\ agentConfig' = [agentConfig EXCEPT ![agent_id].status = status,
                                                  ![agent_id].last_updated = <<now>>]
            /\ agentsReply' = [code |-> 200,
                               body |-> [success |-> TRUE,
                                         agent |-> agentConfig'[agent_id]]]
    /\ UNCHANGED <<registryMain, registryRoutes>>
activate_agent(agent_id, now) == SetAgentStatus(agent_id, "active", now)
deactivate_agent(agent_id, now) == SetAgentStatus(agent_id, "inactive", now)

NextAgents ==
    \/ \E now \in Nows : RoutesGetAgents(now) /\ UNCHANGED <<chatVars, xVars, concVars, sessions, wfVars>>
    \/ \E now \in Nows, salt \in 0..1 : MainGetAgents(now, salt) /\ UNCHANGED <<chatVars, xVars, concVars, sessions, wfVars>>
    \/ \E id \in AgentIds, now \in Nows :
            get_agent_health(id, now) /\ UNCHANGED <<chatVars, xVars, concVars, sessions, wfVars>>
    \/ \E id \in AgentIds, now \in Nows :
            activate_agent(id, now) /\ UNCHANGED <<chatVars, xVars, concVars, sessions, wfVars>>
    \/ \E id \in AgentIds, now \in Nows :
            deactivate_agent(id, now) /\ UNCHANGED <<chatVars, xVars, concVars, sessions, wfVars>>

SpecAgents == Init /\ [][NextAgents]_vars

(***************************************************************************)
(* Concurrent chat requests.  The handlers keep message, agent_ids and     *)
(* responses in local variables (main.py lines 171-183, routes/chat.py     *)
(* lines 166-194), so each invocation has its own; the registries and the  *)
(* API key are the module-level state the invocations share.  An entry of  *)
(* `store` is [id, out, sent, by]: the outcome `out` recorded for `id`,    *)
(* the message `sent` in the upstream call that produced it (<<>> without  *)
(* a call) and the thread `by` that recorded it.  Timing fields are left   *)
(* out here.                                                               *)
(***************************************************************************)
\* the requests the threads serve: a blank message, and two messages with
\* a known id, or a known and an unknown id
ConcRequests ==
    {[hasMessage |-> TRUE, message |-> m, hasAgents |-> TRUE, agents |-> a, extra |-> FALSE] :
        m \in {<<" ">>, <<"h">>, <<" ", "h", "i", " ">>},
        a \in {<<"claude">>, <<"llama", "x">>}}

\* what an upstream call of a thread ends with: a good body, or an exception
ConcUpstream ==
    {up \in Upstream :
        \/ up.kind = "exception"
        \/ /\ up.kind = "response" /\ up.status = 200 /\ up.json
           /\ ~IsRaise(extract_message_content(up.body))
           /\ TotalTokens(up.body) = JNum(7)}

\* variant of Slot in which `responses` is one module-level object
SlotShared(r) == 1

\* `responses = {}` (main.py line 182) and `responses = []` (routes/chat.py
\* line 192) are assignments to a local name: the invocation of thread r has
\* its own object
Slot(r) == r

\* responses[e.id] = e on the dict of main.py
EntrySet(d, e) ==
    IF \E i \in DOMAIN d : d[i].id = e.id
    THEN [i \in DOMAIN d |-> IF d[i].id = e.id THEN e ELSE d[i]]
    ELSE Append(d, e)

\* another request is being served while thread r takes a step
Overlapping(r) == \E q \in Threads \ {r} : threads[q].pc \in {"loop", "inflight"}

\* chat() up to the loop, in thread r, for handler h
ConcReceive(r, h, req) ==
    /\ threads[r].pc \in {"idle", "done"}
    /\ LET msg == Strip(req.message)
           ids == IF h = "main" THEN req.agents
                  ELSE ValidAgents(IF req.agents = <<>> THEN <<"claude">> ELSE req.agents)
           reject(err) ==
               /\ threads' = [threads EXCEPT ![r] =
                                [ThreadIdle EXCEPT !.pc = "done", !.handler = h,
                                     !.returned = [code |-> 400,
                                                   body |-> [success |-> FALSE, error |-> err]]]]
               /\ UNCHANGED store
       IN  IF msg = <<>> THEN reject("Message is required")
           ELSE IF ids = <<>>
           THEN reject(IF h = "main" THEN "At least one agent must be specified"
                       ELSE "No valid agents specified")
           ELSE /\ threads' = [threads EXCEPT ![r] =
                                 [ThreadIdle EXCEPT !.pc = "loop", !.handler = h,
                                                    !.message = msg, !.agent_ids = ids]]
                /\ store' = [store EXCEPT ![Slot(r)] = <<>>]

\* the head of one loop iteration in thread r
ConcDispatch(r) ==
    LET t == threads[r]
        agent_id == t.agent_ids[t.idx + 1]
        record(out) ==
            /\ store' = [store EXCEPT ![Slot(r)] =
                           IF t.handler = "main"
                           THEN EntrySet(@, [id |-> agent_id, out |-> out, sent |-> <<>>, by |-> r])
                           ELSE Append(@, [id |-> agent_id, out |-> out, sent |-> <<>>, by |-> r])]
            /\ threads' = [threads EXCEPT ![r].idx = @ + 1,
                                          ![r].overlap = @ \/ Overlapping(r)]
    IN  /\ t.pc = "loop"
        /\ t.idx < Len(t.agent_ids)
        /\ IF t.handler = "main" /\ agent_id \notin DOMAIN registryMain
           THEN record([status |-> "error", error |-> <<"Unknown agent: ", agent_id>>])
           ELSE IF t.handler = "routes" /\ ~OPENROUTER_API_KEY
           THEN record(DemoResponse(agent_id))
           ELSE /\ threads' = [threads EXCEPT ![r].pc = AfterPost,
                                              ![r].overlap = @ \/ Overlapping(r)]
                /\ UNCHANGED store

\* the upstream call of thread r ends with `up`, and its outcome is recorded
ConcReturn(r, up) ==
    LET t == threads[r]
        agent_id == t.agent_ids[t.idx + 1]
        result == call_openrouter_api(up, registryMain[agent_id].model,
                                      registryMain[agent_id].name)
        out == IF t.handler = "main"
               THEN [status |-> "success", response |-> result.message,
                     agent |-> registryMain[agent_id].name,
                     model |-> registryMain[agent_id].model,
                     tokens_used |-> result.tokens]
               ELSE call_ai_model(agent_id, up, 0)
        e == [id |-> agent_id, out |-> out, sent |-> t.message, by |-> r]
    IN  /\ t.pc = "inflight"
        /\ store' = [store EXCEPT ![Slot(r)] =
                       IF t.handler = "main" THEN EntrySet(@, e) ELSE Append(@, e)]
        /\ threads' = [threads EXCEPT ![r].idx = @ + 1, ![r].pc = "loop",
                                      ![r].overlap = @ \/ Overlapping(r)]

\* the envelope of thread r
ConcFinish(r) ==
    LET t == threads[r]
        rs == store[Slot(r)]
    IN  /\ t.pc = "loop"
        /\ t.idx = Len(t.agent_ids)
        /\ threads' = [threads EXCEPT ![r].pc = "done",
                          ![r].returned =
                             [code |-> 200,
                              body |-> [success |-> TRUE, responses |-> rs,
                                        metadata |->
                                          [total_agents |-> Len(t.agent_ids),
                                           successful_responses |->
                                             IF t.handler = "main" THEN Len(rs)
                                             ELSE Cardinality({i \in DOMAIN rs :
                                                     "error" \notin DOMAIN rs[i].out})]]]]
        /\ UNCHANGED store

NextConc ==
    \/ \E r \in Threads, h \in {"main", "routes"}, req \in ConcRequests :
          ConcReceive(r, h, req) /\ UNCHANGED <<chatVars, regVars, agentsReply, xVars, sessions, wfVars>>
    \/ \E r \in Threads : ConcDispatch(r) /\ UNCHANGED <<chatVars, regVars, agentsReply, xVars, sessions, wfVars>>
    \/ \E r \in Threads, up \in ConcUpstream :
          ConcReturn(r, up) /\ UNCHANGED <<chatVars, regVars, agentsReply, xVars, sessions, wfVars>>
    \/ \E r \in Threads : ConcFinish(r) /\ UNCHANGED <<chatVars, regVars, agentsReply, xVars, sessions, wfVars>>

SpecConc == Init /\ [][NextConc]_vars

(***************************************************************************)
(* A server that answers one chat request after the other, while the       *)
(* agents endpoints switch agents on and off                               *)
(***************************************************************************)

\* time, in ms, between a reply and the arrival of the next request
Gaps == {0, 990}

\* the requests sent to this server
ServerRequests ==
    {[hasMessage |-> TRUE, message |-> <<"h">>, hasAgents |-> TRUE, agents |-> a,
      extra |-> FALSE] : a \in {<<"claude">>, <<"x">>}}

\* the agents that are switched off and on between the requests
SwitchIds == {"claude"}

\* the session id of the reply, or -1 for a reply that has none
RepliedSessionId ==
    IF returned.code # 200 THEN -1
    ELSE IF handler = "main" THEN returned.body.metadata.session_id
    ELSE returned.body.session_id

\* the reply has been sent; gap ms later the next request arrives, and its
\* invocation of chat() starts with fresh locals
NextRequest(gap) ==
    /\ pc = "done"
    /\ Len(sessions) < MaxSessions
    /\ sessions' = Append(sessions, [at |-> clock, code |-> returned.code,
                                     sid |-> RepliedSessionId])
    /\ clock' = clock + gap
    /\ pc' = "idle"
    /\ handler' = "none"
    /\ request' = [hasMessage |-> FALSE, message |-> <<>>, hasAgents |-> FALSE,
                   agents |-> <<>>, extra |-> FALSE]
    /\ message' = <<>>
    /\ agent_ids' = <<>>
    /\ idx' = 0
    /\ responses' = <<>>
    /\ responsesList' = <<>>
    /\ start_time' = 0
    /\ agent_start_time' = 0
    /\ total_response_time' = 0
    /\ posts' = 0
    /\ calls' = <<>>
    /\ returned' = NoReply
    /\ UNCHANGED <<OPENROUTER_API_KEY, regVars, agentsReply, xVars, concVars, wfVars>>

ServerNext ==
    \/ pc = "idle" /\ \E req \in ServerRequests :
            MainReceive(req) /\ UNCHANGED <<xVars, agentsReply, concVars, sessions, wfVars>>
    \/ MainDispatch /\ UNCHANGED <<xVars, agentsReply, concVars, sessions, wfVars>>
    \/ pc = "inflight" /\ \E up \in Upstream, d \in Durations :
            MainUpstreamReturn(up, d) /\ UNCHANGED <<xVars, agentsReply, concVars, sessions, wfVars>>
    \/ pc = "loop" /\ \E o \in 0..MaxOverhead :
            MainFinish(o) /\ UNCHANGED <<xVars, agentsReply, concVars, sessions, wfVars>>
    \/ pc = "idle" /\ \E req \in ServerRequests :
            RoutesReceive(req) /\ UNCHANGED <<xVars, agentsReply, concVars, sessions, wfVars>>
    \/ RoutesDispatch /\ UNCHANGED <<xVars, agentsReply, concVars, sessions, wfVars>>
    \/ pc = "inflight" /\ \E up \in Upstream, d \in Durations :
            RoutesUpstreamReturn(up, d) /\ UNCHANGED <<xVars, agentsReply, concVars, sessions, wfVars>>
    \/ RoutesFinish /\ UNCHANGED <<xVars, agentsReply, concVars, sessions, wfVars>>
    \/ pc = "done" /\ \E gap \in Gaps : NextRequest(gap)
    \/ pc = "idle" /\ \E id \in SwitchIds, now \in Nows :
            deactivate_agent(id, now) /\ UNCHANGED <<chatVars, xVars, concVars, sessions, wfVars>>
    \/ pc = "idle" /\ \E id \in SwitchIds, now \in Nows :
            activate_agent(id, now) /\ UNCHANGED <<chatVars, xVars, concVars, sessions, wfVars>>

SpecServer == Init /\ [][ServerNext]_vars

(***************************************************************************)
(* src/src/routes/workflows.py: the endpoints                              *)
(***************************************************************************)
WfNows == {0, 3}    \* time.time() of a call, in whole seconds
WorkflowIds == DOMAIN WORKFLOW_TEMPLATES \cup {"x"}

\* the JSON bodies sent to /execute: none, {}, {"input": " "}, {"input": " h "}
WfBodies ==
    {[json |-> FALSE, input |-> <<>>], [json |-> TRUE, input |-> <<>>],
     [json |-> TRUE, input |-> <<<<" ">>>>], [json |-> TRUE, input |-> <<<<" ", "h", " ">>>>]}

WorkflowNotFound == [code |-> 404, body |-> [success |-> FALSE, error |-> "Workflow not found"]]
WorkflowError(kind) == [code |-> 500, body |-> [success |-> FALSE, error |-> kind]]

\* workflow['usage_count'] = base_usage + int(time.time() % 10), on the stored dict
ListedTemplate(w, now) ==
    [w EXCEPT !.last_updated = <<now>>, !.usage_count = @ + (now % 10)]

\* GET /workflows
get_workflows(now) ==
    /\ \A id \in DOMAIN workflowTemplates :
          workflowTemplates[id].usage_count + (now % 10)
             <= WORKFLOW_TEMPLATES[id].usage_count + MaxDrift
    /\ workflowTemplates' = [id \in DOMAIN workflowTemplates |->
                                ListedTemplate(workflowTemplates[id], now)]
    /\ workflowsReply' =
          [code |-> 200,
           body |-> [success |-> TRUE,
                     workflows |-> [i \in DOMAIN TemplateOrder |->
                                       workflowTemplates'[TemplateOrder[i]]],
                     total |-> Len(TemplateOrder),
                     \* list(set(...)): the order is not determined
                     categories |-> {workflowTemplates[id].category :
                                        id \in DOMAIN workflowTemplates}]]
    /\ UNCHANGED client

\* GET /workflows/<workflow_id>
get_workflow(workflow_id, now) ==
    /\ workflowsReply' =
          IF workflow_id \notin DOMAIN workflowTemplates THEN WorkflowNotFound
          ELSE [code |-> 200,
                body |-> [success |-> TRUE,
                          workflow |-> [workflowTemplates[workflow_id]
                                           EXCEPT !.last_updated = <<now>>]]]
    /\ UNCHANGED <<workflowTemplates, client>>

\* sum(w[field] for w in WORKFLOW_TEMPLATES.values())
RECURSIVE SumField(_, _)
SumField(order, field) ==
    IF order = <<>> THEN 0
    ELSE workflowTemplates[Head(order)][field] + SumField(Tail(order), field)

\* max(WORKFLOW_TEMPLATES.values(), key=...): the first of the largest
MaxBy(field) ==
    LET best == CHOOSE i \in DOMAIN TemplateOrder :
                   /\ \A j \in DOMAIN TemplateOrder :
                         workflowTemplates[TemplateOrder[j]][field]
                            <= workflowTemplates[TemplateOrder[i]][field]
                   /\ \A j \in 1..(i - 1) :
                         workflowTemplates[TemplateOrder[j]][field]
                            < workflowTemplates[TemplateOrder[i]][field]
    IN  workflowTemplates[TemplateOrder[best]]

\* GET /workflows/stats
get_workflow_stats(now) ==
    /\ \E avg \in RoundDivSet(SumField(TemplateOrder, "success_rate"), Len(TemplateOrder)) :
          workflowsReply' =
             [code |-> 200,
              body |-> [success |-> TRUE,
                        stats |-> [total_workflows |-> Len(TemplateOrder),
                                   total_executions |-> SumField(TemplateOrder, "usage_count"),
                                   average_success_rate |-> avg,
                                   most_popular_workflow |->
                                       [id |-> MaxBy("usage_count").id,
                                        usage_count |-> MaxBy("usage_count").usage_count],
                                   highest_success_workflow |->
                                       [id |-> MaxBy("success_rate").id,
                                        success_rate |-> MaxBy("success_rate").success_rate],
                                   last_updated |-> now]]]
    /\ UNCHANGED <<workflowTemplates, client>>

\* the steps of the plan, one per task of the template
PlanSteps(tasks, user_input) ==
    [i \in DOMAIN tasks |->
        [step_number |-> tasks[i].step, prompt |-> [template |-> tasks[i].step,
                                                    user_input |-> user_input],
         agents |-> tasks[i].agents, status |-> "pending"]]

\* the reply of POST /workflows/<workflow_id>/execute
ExecuteReply(workflow_id, data, now) ==
    IF workflow_id \notin DOMAIN workflowTemplates THEN WorkflowNotFound
    ELSE IF ~data.json THEN WorkflowError("AttributeError")
    ELSE LET user_input == IF data.input = <<>> THEN <<>> ELSE Strip(data.input[1])
         IN  IF user_input = <<>>
             THEN [code |-> 400,
                   body |-> [success |-> FALSE,
                             error |-> "Input is required for workflow execution"]]
             ELSE [code |-> 200,
                   body |-> [success |-> TRUE,
                             execution_plan |->
                                [workflow_id |-> workflow_id,
                                 user_input |-> user_input,
                                 total_steps |-> Len(workflowTemplates[workflow_id].tasks),
                                 execution_id |-> [wf |-> workflow_id, at |-> now],
                                 status |-> "ready",
                                 steps |-> PlanSteps(workflowTemplates[workflow_id].tasks,
                                                     user_input)]]]

\* variant of NextStepAfter that goes on after step 4
NextStepAfterUpTo5(step_number) == IF step_number < 5 THEN <<step_number + 1>> ELSE <<>>

\* step_number + 1 if step_number < 4 else None
NextStepAfter(step_number) == IF step_number < 4 THEN <<step_number + 1>> ELSE <<>>

\* the reply of POST /workflows/executions/<execution_id>/step/<step_number>
StepReply(execution_id, step_number, now) ==
    [code |-> 200,
     body |-> [success |-> TRUE,
               step_result |-> [execution_id |-> execution_id,
                                step_number |-> step_number,
                                status |-> "completed",
                                \* round(2.5 + (time.time() % 3), 1), in tenths
                                duration |-> 25 + 10 * (now % 3),
                                next_step |-> NextStepAfter(step_number)]]]

\* POST /workflows/<workflow_id>/execute; a client that gets a plan starts
\* its run at step 1
execute_workflow(workflow_id, data, now) ==
    /\ workflowsReply' = ExecuteReply(workflow_id, data, now)
    /\ client' = IF workflowsReply'.code = 200
                 THEN [plan |-> <<workflowsReply'.body.execution_plan>>,
                       executed |-> <<>>, next_step |-> <<1>>]
                 ELSE client
    /\ UNCHANGED workflowTemplates

\* POST .../step/<step_number> with any execution id and step number
execute_workflow_step(execution_id, step_number, now) ==
    /\ workflowsReply' = StepReply(execution_id, step_number, now)
    /\ UNCHANGED <<workflowTemplates, client>>

\* the client posts the step that the last reply named and follows next_step
ClientFollow(now) ==
    /\ client.plan # <<>>
    /\ client.next_step # <<>>
    /\ workflowsReply' = StepReply(client.plan[1].execution_id, client.next_step[1], now)
    /\ client' = [client EXCEPT
                     !.executed = Append(@, client.next_step[1]),
                     !.next_step = workflowsReply'.body.step_result.next_step]
    /\ UNCHANGED workflowTemplates

NextWorkflows ==
    \/ \E now \in WfNows :
          get_workflows(now) /\ UNCHANGED <<chatVars, regVars, agentsReply, xVars, concVars, sessions>>
    \/ \E id \in WorkflowIds, now \in WfNows :
          get_workflow(id, now) /\ UNCHANGED <<chatVars, regVars, agentsReply, xVars, concVars, sessions>>
    \/ \E now \in WfNows :
          get_workflow_stats(now) /\ UNCHANGED <<chatVars, regVars, agentsReply, xVars, concVars, sessions>>
    \/ \E id \in WorkflowIds, data \in WfBodies, now \in WfNows :
          execute_workflow(id, data, now) /\ UNCHANGED <<chatVars, regVars, agentsReply, xVars, concVars, sessions>>
    \/ \E n \in 0..MaxStep, now \in WfNows :
          execute_workflow_step([wf |-> "x", at |-> 0], n, now)
             /\ UNCHANGED <<chatVars, regVars, agentsReply, xVars, concVars, sessions>>
    \/ \E now \in WfNows :
          ClientFollow(now) /\ UNCHANGED <<chatVars, regVars, agentsReply, xVars, concVars, sessions>>

SpecWorkflows == Init /\ [][NextWorkflows]_vars

(***************************************************************************)
(* Properties of the chat handlers                                         *)
(***************************************************************************)
\* the request as the client sent it
MessageBlank(req) == ~req.hasMessage \/ \A i \in DOMAIN req.message : req.message[i] = " "
AgentsEmpty(req) == ~req.hasAgents \/ req.agents = <<>>
PassesValidation(req) == ~MessageBlank(req) /\ ~AgentsEmpty(req)
Distinct(ids) == \A i, j \in DOMAIN ids : i # j => ids[i] # ids[j]
Range(q) == {q[i] : i \in DOMAIN q}

Replied == pc = "done"
Envelope == returned.code = 200

\* the ids that have an entry in the returned `responses`, and the entries
RespIds ==
    IF handler = "main" THEN DictKeys(returned.body.responses)
    ELSE {returned.body.responses[i].agent : i \in DOMAIN returned.body.responses}
RespCount == Len(returned.body.responses)

\* C1: a validated request with N >= 1 pairwise distinct ids gets an envelope
\* whose `responses` has exactly N entries, one per requested id
C1_OneEntryPerRequestedId ==
    (Replied /\ PassesValidation(request) /\ Distinct(request.agents))
        => /\ Envelope
           /\ RespCount = Len(request.agents)
           /\ RespIds = Range(request.agents)

\* the error outcome recorded for id in the returned `responses`, if any
HasUnknownAgentOutcome(id) ==
    /\ handler = "main"
    /\ id \in DictKeys(returned.body.responses)
    /\ DictGet(returned.body.responses, id).status = "error"
    /\ DictGet(returned.body.responses, id).error[1] = "Unknown agent: "

\* C2: every unknown id of a validated request gets an outcome with status
\* error mentioning "Unknown agent", and the request still returns HTTP 200,
\* also when every requested id is unknown
C2_UnknownAgentIsErrorOutcome ==
    (Replied /\ PassesValidation(request))
        => /\ Envelope
           /\ \A id \in Range(request.agents) :
                 id \notin (DOMAIN AGENTS \cup DOMAIN MODEL_CONFIG)
                    => HasUnknownAgentOutcome(id)

\* C3: once validation has passed, the handler of src/main.py returns HTTP 200
\* with success = true whatever the upstream outcomes of the agents are
C3_Always200AfterValidation ==
    (Replied /\ handler = "main" /\ PassesValidation(request))
        => (returned.code = 200 /\ returned.body.success = TRUE)

\* a degraded text stands in for the reply of every agent of the request
AllDegraded(rs) ==
    \A i \in DOMAIN rs :
        /\ rs[i][2].status = "success"
        /\ rs[i][2].response.t \in {"exception_text", "http_error_text"}

W3_AllAgentsFailed ==
    /\ Replied /\ handler = "main" /\ returned.code = 200
    /\ Len(returned.body.responses) = 2
    /\ AllDegraded(returned.body.responses)
    /\ \E i, j \in DOMAIN returned.body.responses :
          /\ returned.body.responses[i][2].response.t = "exception_text"
          /\ returned.body.responses[i][2].response.exc = "UnknownFormat"
          /\ returned.body.responses[j][2].response.t = "http_error_text"

\* C4: a request whose message is missing, empty or blank is rejected with
\* HTTP 400 and no upstream call is made for it, whatever its agent list is
C4_BlankMessageRejected ==
    (handler # "none" /\ MessageBlank(request))
        => (Replied /\ returned.code = 400 /\ posts = 0)

W4_BlankMessageWithAgents ==
    /\ Replied /\ returned.code = 400 /\ posts = 0
    /\ request.hasMessage /\ request.message = <<" ", " ">>
    /\ "claude" \in Range(request.agents)

\* C5: a request with a non-empty message and an empty agent list is rejected
\* with HTTP 400 and makes no upstream call
C5_EmptyAgentListRejected ==
    (handler # "none" /\ ~MessageBlank(request) /\ request.hasAgents /\ request.agents = <<>>)
        => (Replied /\ returned.code = 400 /\ posts = 0)

\* C6: metadata.total_agents of an envelope is the length of the requested
\* agent list, duplicates and unknown ids counted
C6_TotalAgentsIsRequestedLength ==
    (Replied /\ Envelope /\ PassesValidation(request))
        => returned.body.metadata.total_agents = Len(request.agents)

\* C7: metadata.successful_responses <= metadata.total_agents in every envelope
C7_SuccessfulAtMostTotal ==
    (Replied /\ Envelope)
        => returned.body.metadata.successful_responses <= returned.body.metadata.total_agents

W7_DuplicateAndUnknownIds ==
    /\ Replied /\ Envelope /\ handler = "main"
    /\ request.agents = <<"claude", "x", "claude">> \/ request.agents = <<"x", "x">>
    /\ returned.body.metadata.successful_responses < returned.body.metadata.total_agents

\* the elapsed time of the request, in ms: the clock starts with the request
Elapsed == clock

\* C8: with total_agents > 0, metadata.average_response_time is the elapsed
\* time of the request divided by total_agents, rounded to 2 decimals (that
\* is, within half a centisecond of the quotient); it is 0 without agents
C8_AverageIsElapsedOverAgents ==
    (Replied /\ Envelope)
        => LET n == returned.body.metadata.total_agents
               avg == returned.body.metadata.average_response_time
           IN  IF n > 0
               THEN /\ avg * 10 * n - Elapsed <= 5 * n
                    /\ Elapsed - avg * 10 * n <= 5 * n
               ELSE avg = 0

(***************************************************************************)
(* Properties of extract_message_content                                   *)
(***************************************************************************)
Extracted == xpc = "done"

\* the value at choices[0].message.content, when that path exists in b
ChoicesPathExists(b) ==
    /\ HasKey(b, "choices")
    /\ Get(b, "choices").t = "list" /\ Len(Get(b, "choices").e) > 0
    /\ Get(b, "choices").e[1].t = "obj" /\ HasKey(Get(b, "choices").e[1], "message")
    /\ Get(Get(b, "choices").e[1], "message").t = "obj"
    /\ HasKey(Get(Get(b, "choices").e[1], "message"), "content")
ChoicesPathValue(b) == Get(Get(Get(b, "choices").e[1], "message"), "content")

\* the documented order of the six patterns
PatternOrder == <<"choices", "output", "completion", "text", "answer", "result">>
PatternMatches(b, n) ==
    IF n = 1 THEN ChoicesPathExists(b) ELSE HasKey(b, PatternOrder[n])
PatternValue(b, n) ==
    IF n = 1 THEN ChoicesPathValue(b) ELSE Get(b, PatternOrder[n])

\* C9: the patterns are tried in the order choices[0].message.content, output,
\* completion, text, answer, result; the first one that matches gives the
\* result, and a pattern that does not match (choices empty, or its first
\* element without message.content) lets the next one be tried
C9_FirstMatchingPatternWins ==
    (Extracted /\ xbody.t = "obj")
        => \A n \in DOMAIN PatternOrder :
              (PatternMatches(xbody, n) /\ \A m \in 1..(n-1) : ~PatternMatches(xbody, m))
                 => xresult = PatternValue(xbody, n)

\* no key of the six named patterns is in the body
NoNamedPattern(b) == b.t = "obj" /\ \A n \in DOMAIN PatternOrder : ~HasKey(b, PatternOrder[n])

\* positions of the str values of a dict
StrPositions(d) == {i \in DOMAIN d.f : d.f[i][2].t = "str"}
\* positions of the top-level dict values that hold a str value themselves
HolderPositions(b) == {i \in DOMAIN b.f : b.f[i][2].t = "obj" /\ StrPositions(b.f[i][2]) # {}}
Least(S) == CHOOSE i \in S : \A j \in S : i <= j

Extractable(b) ==
    \/ ChoicesPathExists(b) /\ ChoicesPathValue(b).t = "str"
    \/ StrPositions(b) # {}
    \/ HolderPositions(b) # {}

\* C11: the extractor raises its "unknown format" failure, which carries the
\* raw body, exactly when no named pattern and no fallback yields a str; it
\* never raises for a body with an extractable str
C11_RaisesIffNothingExtractable ==
    (Extracted /\ xbody.t = "obj")
        => /\ ~Extractable(xbody) => xresult = Raise("UnknownFormat")
           /\ Extractable(xbody) => ~IsRaise(xresult)

\* C12: whenever the extractor returns, the returned value is a str, also for
\* bodies whose named field holds a number, null, a list or a dict
C12_ReturnsText ==
    (Extracted /\ xbody.t = "obj" /\ ~IsRaise(xresult)) => xresult.t = "str"

(***************************************************************************)
(* Properties of the upstream calls                                        *)
(***************************************************************************)
\* the last requests.post of the request has returned and its outcome is stored
LastCallRecorded == handler # "none" /\ pc \in {"loop", "done"} /\ calls # <<>>
LastCall == calls[Len(calls)]

\* the upstream answered with a non-2xx status, or the transport failed
FailedUp(up) ==
    \/ up.kind = "exception"
    \/ up.kind = "response" /\ up.status \notin 200..299

\* the outcome stored for the last call: the dict entry of its id in main.py,
\* the last response appended in routes/chat.py
LastOutcome ==
    IF handler = "main" THEN DictGet(responses, LastCall.id)
    ELSE responsesList[Len(responsesList)]

\* how an outcome is classified: by its `status` in main.py; in routes/chat.py,
\* whose responses have no `status`, by the `error` key that metadata counts
StatusOf(o) ==
    IF "status" \in DOMAIN o THEN o.status
    ELSE IF "error" \in DOMAIN o THEN "error" ELSE "success"

\* the degraded text of main.py for the failure `up` of the call for id
IsDegradedTextFor(text, id, up) ==
    /\ text.t = (IF up.kind = "exception" THEN "exception_text" ELSE "http_error_text")
    /\ text.agent = AGENTS[id].name
    /\ text.model = AGENTS[id].model
    /\ up.kind = "response" => text.status = up.status
    /\ up.kind = "exception" => text.exc = "Transport"

\* C13 as stated: a non-2xx status or a transport exception gives an outcome
\* with status success that carries a degraded text with the status code (or
\* the exception text) and the agent and model identifiers
C13_FailureIsSuccessWithDegradedText ==
    (LastCallRecorded /\ FailedUp(LastCall.up))
        => /\ StatusOf(LastOutcome) = "success"
           /\ "response" \in DOMAIN LastOutcome
           /\ IsDegradedTextFor(LastOutcome.response, LastCall.id, LastCall.up)

\* C13 as amended: the adapter does not raise, and both kinds of failure are
\* classified alike: in main.py as status success with the degraded text, in
\* routes/chat.py as a demo response with an `error` field that holds the
\* status code or the exception text
C13_FailureIsDegradedPerHandler ==
    (LastCallRecorded /\ FailedUp(LastCall.up))
        => IF handler = "main"
           THEN /\ returned.code # 500
                /\ StatusOf(LastOutcome) = "success"
                /\ IsDegradedTextFor(LastOutcome.response, LastCall.id, LastCall.up)
           ELSE /\ StatusOf(LastOutcome) = "error"
                /\ LastOutcome.agent = LastCall.id
                /\ LastOutcome.demo_mode = TRUE
                /\ LastOutcome.error = (IF LastCall.up.kind = "exception" THEN "Transport"
                                        ELSE <<"API returned status ", LastCall.up.status>>)

\* C13 witness: main.py served two agents, the first call ended with a transport
\* exception and the second with HTTP 500, and both outcomes have status success
W13_BothKindsOfFailure ==
    /\ Replied /\ Envelope /\ handler = "main"
    /\ Len(calls) = 2 /\ calls[1].id # calls[2].id
    /\ calls[1].up.kind = "exception"
    /\ calls[2].up.kind = "response" /\ calls[2].up.status = 500
    /\ \A i \in DOMAIN responses : responses[i][2].status = "success"

\* the upstream answered with an HTTP 2xx status and a JSON body
Is2xx(up) == up.kind = "response" /\ up.status \in 200..299 /\ up.json

\* what the handler's extraction gives for a parsed body: the Response
\* Extractor in main.py, data['choices'][0]['message']['content'] in
\* routes/chat.py
HandlerExtract(body) ==
    IF handler = "main" THEN extract_message_content(body)
    ELSE SubscriptKey(SubscriptKey(SubscriptZero(SubscriptKey(body, "choices")),
                                   "message"), "content")

\* C14: every upstream response with a 2xx status, 200 or not, has its parsed
\* body extracted, and the extracted text is the agent's response text
C14_Every2xxIsExtracted ==
    (/\ LastCallRecorded
     /\ Is2xx(LastCall.up)
     /\ ~IsRaise(HandlerExtract(LastCall.up.body)))
        => IF handler = "main"
           THEN LastOutcome.response = HandlerExtract(LastCall.up.body)
           ELSE \E i \in DOMAIN responsesList :
                  /\ "error" \notin DOMAIN responsesList[i]
                  /\ responsesList[i].agent = LastCall.id
                  /\ responsesList[i].demo_mode = FALSE
                  /\ responsesList[i].message = HandlerExtract(LastCall.up.body)

\* C15: when the upstream answers successfully and the extractor raises its
\* "unknown format" failure, the agent's outcome has status error, and the
\* request still ends with its envelope
C15_NoContentIsErrorOutcome ==
    (/\ LastCallRecorded /\ handler = "main"
     /\ Is2xx(LastCall.up)
     /\ extract_message_content(LastCall.up.body) = Raise("UnknownFormat"))
        => /\ StatusOf(LastOutcome) = "error"
           /\ Replied => Envelope

\* how often id occurs in the list q
Occurrences(q, id) == Cardinality({i \in DOMAIN q : q[i] = id})
\* the upstream calls made for id, in order
CallsFor(id) == {i \in DOMAIN calls : calls[i].id = id}
\* the number of entries that the returned `responses` holds for id
EntriesFor(id) ==
    IF handler = "main"
    THEN Cardinality({i \in DOMAIN returned.body.responses :
                        returned.body.responses[i][1] = id})
    ELSE Cardinality({i \in DOMAIN returned.body.responses :
                        returned.body.responses[i].agent = id})
\* the ids that the handler's registry knows
KnownIds == IF handler = "main" THEN DOMAIN registryMain ELSE DOMAIN registryRoutes

\* C16: an id that occurs more than once in the agent list gets one upstream
\* call per occurrence (where the handler calls upstream at all), and the
\* returned `responses` holds exactly one entry for it, the outcome of its
\* last occurrence
C16_DuplicateIdLastWriteWins ==
    (Replied /\ Envelope /\ PassesValidation(request)
     /\ (handler = "routes" => OPENROUTER_API_KEY))
        => \A id \in Range(request.agents) :
             Occurrences(request.agents, id) > 1
                => /\ id \in KnownIds
                        => Cardinality(CallsFor(id)) = Occurrences(request.agents, id)
                   /\ EntriesFor(id) = 1
                   /\ (handler = "main" /\ id \in KnownIds)
                        => LET last == CHOOSE i \in CallsFor(id) :
                                          \A j \in CallsFor(id) : j <= i
                           IN  DictGet(returned.body.responses, id).response =
                                 call_openrouter_api(calls[last].up, AGENTS[id].model,
                                                     AGENTS[id].name).message

(***************************************************************************)
(* Properties of the registries                                            *)
(***************************************************************************)
\* a step that serves GET /agents, in either application
ListStep ==
    \/ \E now \in Nows : RoutesGetAgents(now)
    \/ \E now \in Nows, salt \in 0..1 : MainGetAgents(now, salt)

\* C17: listing the agents has no side effect on the registry: every stored
\* descriptor (health, status, last_updated and the rest) is after the call
\* what it was before it
C17_ListHasNoSideEffects ==
    [][ListStep => (agentConfig' = agentConfig /\ registryMain' = registryMain)]_vars

\* C18: no step of a chat request, whether it validates, rejects, meets an
\* unknown id or an upstream failure, changes a registry: the ids and every
\* descriptor and model configuration stay what they were
C18_ChatLeavesRegistries ==
    [][/\ registryMain' = registryMain
       /\ registryRoutes' = registryRoutes
       /\ agentConfig' = agentConfig]_vars

\* C18 witness: a request with an unknown id and a failed upstream call has
\* been answered and the registries are what they were at start
W18_ChatWithUnknownIdAndFailure ==
    /\ Replied /\ Envelope /\ handler = "main"
    /\ request.agents = <<"x", "claude">>
    /\ Len(calls) = 1 /\ FailedUp(calls[1].up)
    /\ registryMain = AGENTS /\ registryRoutes = MODEL_CONFIG /\ agentConfig = AGENT_CONFIG

(***************************************************************************)
(* Order and number of the upstream calls                                  *)
(***************************************************************************)
\* the calls that have started and not yet returned
InFlight == {i \in DOMAIN calls : calls[i].up.kind = "pending"}
\* the number of outcomes recorded so far
Recorded == IF handler = "main" THEN Len(responses) ELSE Len(responsesList)

\* C19: the agents are processed one after the other in input order: at most
\* one upstream call is in flight, the call in flight is the one for the next
\* unprocessed id, whose predecessors all have their outcome recorded, and the
\* calls were started in the order of the list
C19_StrictlySequential ==
    /\ Cardinality(InFlight) <= 1
    /\ \A i \in InFlight :
         /\ i = Len(calls) /\ pc = "inflight"
         /\ calls[i].pos = idx + 1
         /\ calls[i].id = agent_ids[idx + 1]
         /\ \A k \in 1..idx :
              IF handler = "main" THEN agent_ids[k] \in DictKeys(responses)
              ELSE \E j \in DOMAIN responsesList : responsesList[j].agent = agent_ids[k]
    /\ \A i, j \in DOMAIN calls : i < j => calls[i].pos < calls[j].pos

\* C19 witness: the second upstream call is in flight after the first one
\* returned and had its outcome recorded
W19_SecondCallInFlight ==
    /\ pc = "inflight" /\ Len(calls) = 2
    /\ calls[1].up.kind # "pending" /\ calls[2].up.kind = "pending"
    /\ Recorded = 1

\* the occurrences of ids the handler's registry knows in the list q
KnownOccurrences(q) == Cardinality({i \in DOMAIN q : q[i] \in KnownIds})

\* C20 as stated: a validated request issues one POST per occurrence of a
\* known id, none for an unknown id, and none besides
C20_OnePostPerKnownOccurrence ==
    (Replied /\ Envelope /\ PassesValidation(request))
        => posts = KnownOccurrences(request.agents)

\* routes/chat.py without a configured API key answers with demo responses
DemoMode == handler = "routes" /\ ~OPENROUTER_API_KEY

\* C20 as amended: one POST per occurrence of a known id, none for an unknown
\* id and no retry, when the handler has an API key (main.py always sends);
\* routes/chat.py without API key issues no POST at all
C20_OnePostPerKnownOccurrenceWithKey ==
    (Replied /\ Envelope /\ PassesValidation(request))
        => /\ posts = (IF DemoMode THEN 0 ELSE KnownOccurrences(request.agents))
           /\ Len(calls) = posts
           /\ \A i \in DOMAIN calls : calls[i].id \in KnownIds

\* C20 witness: a request naming a known and an unknown id, whose single
\* upstream call failed, was answered after exactly one POST
W20_FailedCallNotRetried ==
    /\ Replied /\ Envelope /\ ~DemoMode
    /\ Occurrences(request.agents, "x") = 1 /\ Len(request.agents) = 2
    /\ posts = 1 /\ FailedUp(calls[1].up)

(***************************************************************************)
(* Properties of the envelope's metadata                                   *)
(***************************************************************************)
\* the sum of the response_time fields of the outcomes of a main.py dict
RECURSIVE SumResponseTimes(_)
SumResponseTimes(d) ==
    IF d = <<>> THEN 0
    ELSE (IF "response_time" \in DOMAIN Head(d)[2] THEN Head(d)[2].response_time ELSE 0)
         + SumResponseTimes(Tail(d))

\* C21 as stated: the envelope's total elapsed time is the sum of the
\* per-agent elapsed times recorded in the outcomes of `responses` (main.py,
\* times in hundredths of a second)
C21_TotalIsSumOfOutcomeTimes ==
    (Replied /\ Envelope /\ PassesValidation(request) /\ handler = "main")
        => returned.body.metadata.total_time = SumResponseTimes(returned.body.responses)

\* C21 as amended: main.py's total_time is the wall-clock time from start_time
\* to the end of the loop, rounded to 2 decimals, and is never smaller than
\* the response_time of any outcome; routes/chat.py reports no total time
C21_TotalIsWallClockOfLoop ==
    (Replied /\ Envelope)
        => IF handler = "main"
           THEN LET tt == returned.body.metadata.total_time
                IN  /\ tt * 10 - (clock - start_time) <= 5
                    /\ (clock - start_time) - tt * 10 <= 5
                    /\ \A i \in DOMAIN returned.body.responses :
                         "response_time" \in DOMAIN returned.body.responses[i][2]
                            => tt >= returned.body.responses[i][2].response_time
           ELSE "total_time" \notin DOMAIN returned.body.metadata

\* C21 witness: main.py served the same id twice, 12 ms per call: the total is
\* 0.02 s and the one outcome kept for the id records 0.01 s
W21_DuplicateIdTotalExceedsSum ==
    /\ Replied /\ Envelope /\ handler = "main"
    /\ Len(calls) = 2 /\ Len(returned.body.responses) = 1
    /\ returned.body.metadata.total_time = 2
    /\ SumResponseTimes(returned.body.responses) = 1

\* the outcomes of the returned `responses` that are classified as success
SuccessOutcomes ==
    IF handler = "main"
    THEN {i \in DOMAIN returned.body.responses :
            StatusOf(returned.body.responses[i][2]) = "success"}
    ELSE {i \in DOMAIN returned.body.responses :
            StatusOf(returned.body.responses[i]) = "success"}

\* C22: metadata.successful_responses is the number of outcomes in `responses`
\* whose status is success; error outcomes are not counted
C22_SuccessfulCountsSuccessOutcomes ==
    (Replied /\ Envelope)
        => returned.body.metadata.successful_responses = Cardinality(SuccessOutcomes)

(***************************************************************************)
(* Properties of concurrent requests                                       *)
(***************************************************************************)
\* thread r has answered its request with an envelope
Answered(r) == threads[r].pc = "done" /\ threads[r].returned.code = 200

\* C23: the envelope of a request holds only outcomes that its own thread
\* recorded, for ids of its own agent list, from upstream calls that carried
\* its own message; it has an entry for every id of its list and no entry
\* more, its total_agents counts its own list, and an invocation starts with
\* no outcome of an earlier request
C23_OutcomesPrivateToRequest ==
    \A r \in Threads :
        /\ Answered(r)
             => LET t == threads[r]
                    rs == t.returned.body.responses
                IN  /\ \A i \in DOMAIN rs :
                          /\ rs[i].by = r
                          /\ rs[i].id \in Range(t.agent_ids)
                          /\ rs[i].sent \in {<<>>, t.message}
                    /\ \A id \in Range(t.agent_ids) : \E i \in DOMAIN rs : rs[i].id = id
                    /\ Len(rs) = (IF t.handler = "main" THEN Cardinality(Range(t.agent_ids))
                                  ELSE Len(t.agent_ids))
                    /\ t.returned.body.metadata.total_agents = Len(t.agent_ids)
        /\ (threads[r].pc = "loop" /\ threads[r].idx = 0) => store[Slot(r)] = <<>>

\* C23 witness: two requests with different messages and agent lists, whose
\* steps interleaved, have both been answered with an envelope
W23_TwoInterleavedRequestsAnswered ==
    /\ Answered(1) /\ Answered(2)
    /\ threads[1].overlap /\ threads[2].overlap
    /\ threads[1].message # threads[2].message
    /\ threads[1].agent_ids = <<"claude">> /\ threads[2].agent_ids = <<"llama", "x">>
    /\ \E i \in DOMAIN store[1] : store[1][i].sent = threads[1].message
    /\ \E i \in DOMAIN store[2] : store[2][i].sent = threads[2].message

(***************************************************************************)
(* Properties of successive requests                                       *)
(***************************************************************************)
\* the replies of the log that are envelopes
Envelopes == {i \in DOMAIN sessions : sessions[i].code = 200}

\* C24: the session id of an envelope is the clock reading at whole seconds:
\* ids do not decrease in the order of the replies, envelopes answered in
\* different seconds have different ids, and equal ids mean the same second
C24_SessionIdIsWholeSecondOfClock ==
    /\ \A i \in Envelopes : sessions[i].sid = sessions[i].at \div 1000
    /\ \A i, j \in Envelopes :
         i < j => /\ sessions[i].sid <= sessions[j].sid
                  /\ (sessions[i].at \div 1000 # sessions[j].at \div 1000)
                        => sessions[i].sid # sessions[j].sid
                  /\ (sessions[i].sid = sessions[j].sid)
                        => sessions[i].at \div 1000 = sessions[j].at \div 1000

\* C24 witness: two envelopes less than a second apart that were answered in
\* different seconds, 0.012 s and 1.002 s, and carry different session ids
W24_EnvelopesAcrossSecondBoundary ==
    /\ Len(sessions) = 2 /\ Envelopes = {1, 2}
    /\ sessions[1].at = 12 /\ sessions[2].at = 1002
    /\ sessions[1].sid = 0 /\ sessions[2].sid = 1

(***************************************************************************)
(* Termination of a request                                                *)
(***************************************************************************)
\* C25: a request that entered the loop ends with an envelope, the envelope
\* is emitted only when every id of the list has been processed and no call
\* is in flight, and a reply, once emitted, is the only one
C25_TerminatesWithOneEnvelope ==
    /\ (pc \in {"loop", "inflight"}) ~> (pc = "done" /\ returned.code = 200)
    /\ [](returned.code = 200 => (idx = Len(agent_ids) /\ InFlight = {}
                                  /\ Recorded >= Cardinality(Range(agent_ids))))
    /\ [][returned # NoReply => returned' = returned]_vars

\* C25 witness: the envelope of a request with two ids, whose first call
\* ended by an exception such as the timeout, after both were processed
W25_EnvelopeAfterTimeoutAndSecondAgent ==
    /\ Replied /\ Envelope
    /\ Len(agent_ids) = 2 /\ idx = 2 /\ Len(calls) = 2
    /\ calls[1].up.kind = "exception"

(***************************************************************************)
(* Properties of activate and deactivate                                   *)
(***************************************************************************)
\* what a step that sets the status of id to st must have done
StatusSetTo(id, st) ==
    IF id \in DOMAIN agentConfig
    THEN /\ agentsReply'.code = 200
         /\ DOMAIN agentConfig' = DOMAIN agentConfig
         /\ agentConfig'[id].status = st
         /\ agentConfig'[id].health = agentConfig[id].health
         /\ \A other \in DOMAIN agentConfig \ {id} : agentConfig'[other] = agentConfig[other]
         /\ agentConfig[id].status = st
               => \A a \in DOMAIN agentConfig : agentConfig'[a].status = agentConfig[a].status
    ELSE /\ agentsReply'.code = 404
         /\ agentConfig' = agentConfig

\* C26: activate and deactivate of a known id set that agent's status, leave
\* the other agents as they are and change no status when repeated; for an
\* unknown id they answer 404 and leave the registry unchanged; so the id set
\* stays the initial one and every status is active or inactive
C26_StatusSwitchesOnlyTheNamedAgent ==
    /\ [](/\ DOMAIN agentConfig = DOMAIN AGENT_CONFIG
          /\ \A a \in DOMAIN agentConfig : agentConfig[a].status \in {"active", "inactive"})
    /\ [][\A id \in AgentIds, now \in Nows :
            /\ activate_agent(id, now) => StatusSetTo(id, "active")
            /\ deactivate_agent(id, now) => StatusSetTo(id, "inactive")]_vars

\* C26 witness: claude has been deactivated, the reply shows it inactive, and
\* llama is still active
W26_OneAgentDeactivated ==
    /\ agentConfig["claude"].status = "inactive"
    /\ agentConfig["llama"].status = "active"
    /\ agentsReply.code = 200
    /\ "agent" \in DOMAIN agentsReply.body
    /\ agentsReply.body.agent.status = "inactive"

(***************************************************************************)
(* Agent status and chat dispatch                                          *)
(***************************************************************************)
\* the kind of outcome that the handler records for an upstream call for id
\* that ended with `up`
OutcomeKindFor(id, up) ==
    IF handler = "main" THEN "success"
    ELSE IF "error" \in DOMAIN call_ai_model(id, up, 0) THEN "error" ELSE "success"

\* the outcome that the handler recorded for the first upstream call
FirstOutcome ==
    IF handler = "main" THEN DictGet(responses, calls[1].id) ELSE responsesList[1]

\* C27: whatever the status of the agents in AGENT_CONFIG, a validated request
\* that names a known id gets its envelope, one upstream call is made per
\* occurrence of a known id (none only in the demo mode of routes/chat.py),
\* and the kind of the outcome depends on the upstream's answer alone
C27_StatusDoesNotGateDispatch ==
    (Replied /\ PassesValidation(request))
        => /\ KnownOccurrences(request.agents) > 0 => Envelope
           /\ Envelope => posts = (IF DemoMode THEN 0 ELSE KnownOccurrences(request.agents))
           /\ (Envelope /\ calls # <<>>)
                 => StatusOf(FirstOutcome) = OutcomeKindFor(calls[1].id, calls[1].up)

\* C27 witness: claude was deactivated before a request naming claude
\* arrived; the request was dispatched to the upstream and got its outcome
W27_DeactivatedAgentStillCalled ==
    /\ Replied /\ Envelope
    /\ agentConfig["claude"].status = "inactive"
    /\ request.agents = <<"claude">>
    /\ posts = 1 /\ Len(calls) = 1 /\ calls[1].id = "claude"
    /\ calls[1].up.kind = "response" /\ calls[1].up.status = 200
    /\ StatusOf(FirstOutcome) = "success"

(***************************************************************************)
(* Properties of the workflows endpoints                                   *)
(***************************************************************************)
\* C28 as stated: listing the workflows leaves the stored templates as they
\* were: every stored usage_count has its initial value, and /workflows/stats
\* and /workflows/<id> report the initial usage figures
C28_ListingLeavesUsageCounts ==
    /\ \A id \in DOMAIN WORKFLOW_TEMPLATES :
          workflowTemplates[id].usage_count = WORKFLOW_TEMPLATES[id].usage_count
    /\ (workflowsReply.code = 200 /\ "stats" \in DOMAIN workflowsReply.body)
          => workflowsReply.body.stats.total_executions = 47 + 23 + 31
    /\ (workflowsReply.code = 200 /\ "workflow" \in DOMAIN workflowsReply.body)
          => workflowsReply.body.workflow.usage_count
                = WORKFLOW_TEMPLATES[workflowsReply.body.workflow.id].usage_count

\* the reply is the result of a step
IsStepResult == workflowsReply.code = 200 /\ "step_result" \in DOMAIN workflowsReply.body

\* C29: a step's reply names step_number + 1 as next_step when step_number < 4
\* and none otherwise; every template has as many tasks as the plan's
\* total_steps, namely 4; a client that starts at step 1 and follows next_step
\* executes 1, 2, 3, 4 in this order and stops after total_steps steps
C29_ClientRunsTotalSteps ==
    /\ IsStepResult =>
          LET r == workflowsReply.body.step_result
          IN  r.next_step = (IF r.step_number < 4 THEN <<r.step_number + 1>> ELSE <<>>)
    /\ \A id \in DOMAIN workflowTemplates : Len(workflowTemplates[id].tasks) = 4
    /\ client.plan # <<>> =>
          /\ client.plan[1].total_steps
                = Len(WORKFLOW_TEMPLATES[client.plan[1].workflow_id].tasks)
          /\ Len(client.plan[1].steps) = client.plan[1].total_steps
          /\ Len(client.executed) <= client.plan[1].total_steps
          /\ \A i \in DOMAIN client.executed :
                /\ client.executed[i] = i
                /\ client.executed[i] = client.plan[1].steps[i].step_number
          /\ client.next_step =
                (IF Len(client.executed) < client.plan[1].total_steps
                 THEN <<Len(client.executed) + 1>> ELSE <<>>)
          /\ client.next_step = <<>> => Len(client.executed) = client.plan[1].total_steps

\* C29 witness: the client of a plan has executed the steps 1, 2, 3, 4 and
\* the last reply told it to stop
W29_ClientStoppedAfterFourSteps ==
    /\ client.plan # <<>>
    /\ client.plan[1].workflow_id = "multi-agent-debate"
    /\ client.executed = <<1, 2, 3, 4>>
    /\ client.next_step = <<>>
    /\ IsStepResult
    /\ workflowsReply.body.step_result.step_number = 4
    /\ workflowsReply.body.step_result.execution_id = client.plan[1].execution_id

====
